---- MODULE Spec2Model ----
(***************************************************************************)
(* Model of the GitLeaker scan route (src/unnamed/part_001): the POST      *)
(* handler, the GitLabAPI client it drives, scanFiles and findLineNumber.  *)
(*                                                                         *)
(* File content is a sequence of tokens.  Every token stands for one       *)
(* concrete JavaScript substring, chosen so that no token occurs inside a  *)
(* concatenation of tokens except at a token boundary; a substring test on *)
(* token sequences is then the same as String.prototype.includes on the    *)
(* text.  The tokens:                                                      *)
(*   "key"      a secret keyword of rule 1, and (the rules are /i) the     *)
(*              word KEY of rule 2                                         *)
(*   "PRIVATE"  the word PRIVATE of rule 2; "PRIVATE" followed by "key"    *)
(*              is also the keyword private[_-]?key of rule 1              *)
(*   "="  "'"  "@"  " "  "\n"   themselves                                 *)
(*   "x"        an ordinary letter                                         *)
(*   "BEGIN" "RSA" "ssh-rsa" "SELECT" "FROM" "WHERE" "<script" "on"        *)
(*              the literals of rules 2..5                                 *)
(***************************************************************************)
EXTENDS Integers, Sequences, FiniteSets, TLC

\* Largest number of entries of a repository tree listing.
MaxFiles == 3

\* Largest number of rule evaluations that throw in one run.
MaxRuleFailures == 1

None == "none"

VARIABLES
    pc,               \* where POST stands: "start", an await, or "done"
    request,          \* the parsed request body
    hung,             \* the pending fetch never settles
    projectReply,     \* what GitLab answered to getProject (history)
    project,          \* const project
    files,            \* const files
    idx,              \* the index in files of the file being fetched
    vulnerabilities,  \* the array scanFiles fills
    fetched,          \* the getFileContent calls that settled, in order (history)
    consoleErrors,    \* the paths console.error reported in scanFiles
    calls,            \* the GitLabAPI operations called, in order (history)
    response,         \* the response POST returned
    first             \* the snapshot and the Report of the run before (history)

vars == <<pc, request, hung, projectReply, project, files, idx, vulnerabilities,
          fetched, consoleErrors, calls, response, first>>

-----------------------------------------------------------------------------
(* Character classes of the patterns, on tokens.                           *)

\* \s
IsSpace(t) == t \in {" ", "\n"}

\* \w+ : tokens made of word characters only
IsWord(t) == t \in {"key", "x", "BEGIN", "RSA", "PRIVATE", "SELECT", "FROM", "WHERE", "on"}

\* . (no s flag: every character but a line terminator)
IsDot(t) == t # "\n"

\* [^'"]
IsNonQuote(t) == t # "'"

\* [^@]
IsNonAt(t) == t # "@"

At(s, i) == IF i >= 1 /\ i <= Len(s) THEN s[i] ELSE None

\* The position after the longest run of tokens of one class that starts at i
\* (a greedy quantifier over that class).
RECURSIVE SkipSpace(_, _)
SkipSpace(s, i) == IF i <= Len(s) /\ IsSpace(s[i]) THEN SkipSpace(s, i + 1) ELSE i

RECURSIVE SkipWord(_, _)
SkipWord(s, i) == IF i <= Len(s) /\ IsWord(s[i]) THEN SkipWord(s, i + 1) ELSE i

RECURSIVE SkipNonQuote(_, _)
SkipNonQuote(s, i) == IF i <= Len(s) /\ IsNonQuote(s[i]) THEN SkipNonQuote(s, i + 1) ELSE i

RECURSIVE SkipNonAt(_, _)
SkipNonAt(s, i) == IF i <= Len(s) /\ IsNonAt(s[i]) THEN SkipNonAt(s, i + 1) ELSE i

RECURSIVE SkipEq(_, _, _)
SkipEq(s, i, most) ==
    IF most > 0 /\ i <= Len(s) /\ s[i] = "=" THEN SkipEq(s, i + 1, most - 1) ELSE i

\* No line terminator among the tokens i .. j-1 (what .* can cover).
DotRun(s, i, j) == \A k \in i..(j - 1) : IsDot(s[k])

Max(S) == CHOOSE m \in S : \A n \in S : n <= m
Min(S) == CHOOSE m \in S : \A n \in S : m <= n

-----------------------------------------------------------------------------
(* The five patterns of scanFiles.  Each XxxEnd(s, i) is the position      *)
(* after the match the regular expression finds when it is tried at        *)
(* position i of s, and 0 when it does not match there.                    *)

\* patterns.secrets[0]:
\*   (?:password|secret|key|token|api[_-]?key|aws[_-]?key|private[_-]?key)
\*   \s*[=:]\s*['"][^'"]+['"]
\* The length of the keyword alternative that matches at i (0: none).
KeywordLen(s, i) ==
    IF At(s, i) = "key" THEN 1
    ELSE IF At(s, i) = "PRIVATE" /\ At(s, i + 1) = "key" THEN 2
    ELSE 0

SecretAssignEnd(s, i) ==
    LET k == KeywordLen(s, i)
        e == SkipSpace(s, i + k)
        q == SkipSpace(s, e + 1)
        v == SkipNonQuote(s, q + 1)
    IN  IF k > 0 /\ At(s, e) = "=" /\ At(s, q) = "'" /\ v > q + 1 /\ At(s, v) = "'"
        THEN v + 1 ELSE 0

\* patterns.secrets[1]: (?:BEGIN\s+(?:RSA|DSA|EC|OPENSSH)\s+PRIVATE\s+KEY)
PrivateKeyEnd(s, i) ==
    LET a == SkipSpace(s, i + 1)
        b == SkipSpace(s, a + 1)
        c == SkipSpace(s, b + 1)
    IN  IF /\ At(s, i) = "BEGIN" /\ a > i + 1
           /\ At(s, a) = "RSA" /\ b > a + 1
           /\ At(s, b) = "PRIVATE" /\ c > b + 1
           /\ At(s, c) = "key"
        THEN c + 1 ELSE 0

\* patterns.secrets[2]:
\*   (?:ssh-rsa|ssh-dss|ssh-ed25519)\s+[A-Za-z0-9+/]+[=]{0,3}\s+[^@]+@[^@]+
\* [^@] takes white space too, so \s+ keeps one token at least and [^@]+ needs
\* one more before the first "@"; the last [^@]+ runs to the next "@" or the end.
SshKeyEnd(s, i) ==
    LET a  == SkipSpace(s, i + 1)
        b  == SkipWord(s, a)     \* [A-Za-z0-9+/]+ takes the tokens \w+ takes
        p  == SkipEq(s, b, 3)
        at == SkipNonAt(s, p)
        z  == SkipNonAt(s, at + 1)
    IN  IF /\ At(s, i) = "ssh-rsa" /\ a > i + 1
           /\ b > a
           /\ IsSpace(At(s, p))
           /\ at >= p + 2 /\ At(s, at) = "@"
           /\ z > at + 1
        THEN z ELSE 0

\* patterns.sqlInjection[0]:
\*   (?:SELECT|INSERT|UPDATE|DELETE|DROP|UNION)\s+.*FROM\s+.*WHERE\s+.*['"][^'"]*['"]
\* The quantifiers are greedy: backtracking prefers the last FROM, then the
\* last WHERE, then the last opening quote that let the rest match; the closing
\* quote is the first quote after the opening one.
SqlFrom(s, i) ==
    LET a == SkipSpace(s, i + 1)
    IN  IF At(s, i) = "SELECT" /\ a > i + 1
        THEN {f \in a..Len(s) : s[f] = "FROM" /\ DotRun(s, a, f)} ELSE {}

SqlWhere(s, f) ==
    LET b == SkipSpace(s, f + 1)
    IN  IF b > f + 1
        THEN {w \in b..Len(s) : s[w] = "WHERE" /\ DotRun(s, b, w)} ELSE {}

SqlQuote(s, w) ==
    LET c == SkipSpace(s, w + 1)
    IN  IF c > w + 1
        THEN {q \in c..Len(s) : /\ s[q] = "'" /\ DotRun(s, c, q)
                                /\ At(s, SkipNonQuote(s, q + 1)) = "'"}
        ELSE {}

SqlInjectionEnd(s, i) ==
    LET fs == {f \in SqlFrom(s, i) : \E w \in SqlWhere(s, f) : SqlQuote(s, w) # {}}
    IN  IF fs = {} THEN 0
        ELSE LET f == Max(fs)
                 w == Max({u \in SqlWhere(s, f) : SqlQuote(s, u) # {}})
                 q == Max(SqlQuote(s, w))
             IN  SkipNonQuote(s, q + 1) + 1

\* patterns.xss[0]: (?:<script|javascript:|on\w+\s*=)
XssEnd(s, i) ==
    LET a == SkipWord(s, i + 1)
        e == SkipSpace(s, a)
    IN  IF At(s, i) = "<script" THEN i + 1
        ELSE IF At(s, i) = "on" /\ a > i + 1 /\ At(s, e) = "=" THEN e + 1
        ELSE 0

\* The rules in evaluation order: secrets[0..2], sqlInjection[0], xss[0].
Rules == 1..5

PatternEnd(r, s, i) ==
    CASE r = 1 -> SecretAssignEnd(s, i)
      [] r = 2 -> PrivateKeyEnd(s, i)
      [] r = 3 -> SshKeyEnd(s, i)
      [] r = 4 -> SqlInjectionEnd(s, i)
      [] r = 5 -> XssEnd(s, i)

\* The g flag of the pattern literal.
IsGlobal(r) == r \in {1, 4, 5}

\* The first position >= from where the pattern matches (0: nowhere).
FirstMatchFrom(r, s, from) ==
    LET hits == {i \in from..Len(s) : PatternEnd(r, s, i) # 0}
    IN  IF hits = {} THEN 0 ELSE Min(hits)

\* String.prototype.match with a g pattern: every match, scanning on from the
\* end of the one before.
RECURSIVE MatchAllFrom(_, _, _)
MatchAllFrom(r, s, from) ==
    LET i == FirstMatchFrom(r, s, from)
    IN  IF i = 0 THEN <<>>
        ELSE <<SubSeq(s, i, PatternEnd(r, s, i) - 1)>>
             \o MatchAllFrom(r, s, PatternEnd(r, s, i))

\* content.match(pattern): <<>> stands for null; with the g flag the texts of
\* all the matches, without it the first match alone (the patterns have no
\* capture group).
StringMatch(s, r) ==
    LET i == FirstMatchFrom(r, s, 1)
    IN  IF i = 0 THEN <<>>
        ELSE IF IsGlobal(r) THEN MatchAllFrom(r, s, 1)
        ELSE <<SubSeq(s, i, PatternEnd(r, s, i) - 1)>>

-----------------------------------------------------------------------------
(* findLineNumber                                                          *)

\* content.split('\n')
RECURSIVE SplitLines(_)
SplitLines(s) ==
    LET nl == {i \in 1..Len(s) : s[i] = "\n"}
    IN  IF nl = {} THEN <<s>>
        ELSE <<SubSeq(s, 1, Min(nl) - 1)>> \o SplitLines(SubSeq(s, Min(nl) + 1, Len(s)))

\* line.includes(match)
Includes(line, m) ==
    \E i \in 1..(Len(line) - Len(m) + 1) : SubSeq(line, i, i + Len(m) - 1) = m

findLineNumber(content, m) ==
    LET lines == SplitLines(content)
        hit   == {i \in 1..Len(lines) : Includes(lines[i], m)}
    IN  IF hit = {} THEN 1 ELSE Min(hit)

-----------------------------------------------------------------------------
(* scanFiles                                                               *)

\* Severity with a level outside the four of the statistics for the XSS rule.
SeverityXssInfo(r) == IF r \in 1..3 THEN "Critical" ELSE IF r = 4 THEN "High" ELSE "Info"

Severity(r) == IF r \in 1..3 THEN "Critical" ELSE "High"

Type(r) == IF r \in 1..3 THEN "Secret Exposure" ELSE "Code Vulnerability"

Title(r) ==
    CASE r \in 1..3 -> "Potential Secret Exposure in"
      [] r = 4      -> "Potential SQL Injection in"
      [] r = 5      -> "Potential XSS Vulnerability in"

\* Finding with the id taken before the push is counted.
FindingIdFromZero(v, r, path, content, matches) ==
    [id       |-> Len(v),
     title    |-> <<Title(r), path>>,
     severity |-> Severity(r),
     type     |-> Type(r),
     file     |-> path,
     line     |-> findLineNumber(content, matches[1]),
     rule     |-> r]

\* The object pushed for a match; the field rule is not in the code: it records
\* which pattern produced the finding.
Finding(v, r, path, content, matches) ==
    [id       |-> Len(v) + 1,
     title    |-> <<Title(r), path>>,
     severity |-> Severity(r),
     type     |-> Type(r),
     file     |-> path,
     line     |-> findLineNumber(content, matches[1]),
     rule     |-> r]

\* ScanRule pushing once for every element of matches.
RECURSIVE PushEach(_, _, _, _, _, _)
PushEach(v, r, path, content, matches, k) ==
    IF k > Len(matches) THEN v
    ELSE PushEach(Append(v, [id |-> Len(v) + 1, title |-> <<Title(r), path>>,
                             severity |-> Severity(r), type |-> Type(r), file |-> path,
                             line |-> findLineNumber(content, matches[k]), rule |-> r]),
                  r, path, content, matches, k + 1)

ScanRuleEachMatch(v, r, path, content) ==
    PushEach(v, r, path, content, StringMatch(content, r), 1)

\* One iteration of a pattern loop: content.match(pattern), and a push when
\* it is not null.
ScanRule(v, r, path, content) ==
    LET matches == StringMatch(content, r)
    IN  IF matches # <<>> THEN Append(v, Finding(v, r, path, content, matches)) ELSE v

\* The three pattern loops of one file, the rules r..5 in order.
RECURSIVE ScanContent(_, _, _, _)
ScanContent(v, r, path, content) ==
    IF r > 5 THEN v ELSE ScanContent(ScanRule(v, r, path, content), r + 1, path, content)

\* The pattern loops of one file up to the rule t, which is not reached.
RECURSIVE ScanBefore(_, _, _, _, _)
ScanBefore(v, r, t, path, content) ==
    IF r >= t THEN v ELSE ScanBefore(ScanRule(v, r, path, content), r + 1, t, path, content)

\* NewVulnerabilities with the array kept from one call of scanFiles to the next.
KeptVulnerabilities == vulnerabilities

\* const vulnerabilities = [];
NewVulnerabilities == <<>>

-----------------------------------------------------------------------------
(* POST                                                                    *)

CountSeverity(v, sev) == Cardinality({k \in 1..Len(v) : v[k].severity = sev})

Stats(fs, v) ==
    [totalFiles      |-> Len(fs),
     scannedFiles    |-> Len(fs),
     vulnerabilities |-> Len(v),
     critical        |-> CountSeverity(v, "Critical"),
     high            |-> CountSeverity(v, "High"),
     medium          |-> CountSeverity(v, "Medium"),
     low             |-> CountSeverity(v, "Low")]

NoStats == Stats(<<>>, <<>>)

ErrorResponse(status, message) ==
    [status |-> status, message |-> message, project |-> None,
     stats |-> NoStats, vulnerabilities |-> <<>>]

Report(p, fs, v) ==
    [status |-> 200, message |-> None, project |-> p,
     stats |-> Stats(fs, v), vulnerabilities |-> v]

\* The catch block of POST.
ScanFailed == ErrorResponse(500, "Failed to scan repository")

\* MissingInput with && for ||.
MissingInputBoth(req) == req.projectPath = "" /\ req.token = ""

\* if (!projectPath || !token)
MissingInput(req) == req.projectPath = "" \/ req.token = ""

\* response.ok
ResponseOk(status) == status \in 200..299

\* The first blob at or after position from of the listing (0: none): the
\* loop of scanFiles passes the other entries by.
NextBlob(fs, from) ==
    LET blobs == {i \in from..Len(fs) : fs[i].type = "blob"}
    IN  IF blobs = {} THEN 0 ELSE Min(blobs)

\* The loop of scanFiles from position from on, up to its next await: the
\* call of getFileContent for the next blob, or, the listing exhausted, the
\* return of scanFiles and the rest of POST.
ContinueScan(fs, from, v) ==
    LET nb == NextBlob(fs, from)
    IN  IF nb = 0
        THEN /\ pc' = "done"
             /\ response' = Report(project, fs, v)
             /\ UNCHANGED <<idx, calls>>
        ELSE /\ pc' = "awaitContent"
             /\ idx' = nb
             /\ calls' = Append(calls, [op |-> "getFileContent", path |-> fs[nb].path])
             /\ UNCHANGED response

-----------------------------------------------------------------------------
(* What the environment can send.                                          *)

\* The request bodies: request.json() rejects a body that is not JSON; a
\* field that is missing or empty is falsy, written "".
Requests ==
    [json : BOOLEAN, projectPath : {"", "group/repo"}, token : {"", "glpat"}]

\* The answers of GitLab to GET /projects/:id : the project, a null body,
\* 404 Not Found for a project that does not exist, 401 for a bad token.
ProjectReplies ==
    {[status |-> 200, body |-> "project"], [status |-> 200, body |-> "null"],
     [status |-> 404, body |-> "404 Project Not Found"],
     [status |-> 401, body |-> "401 Unauthorized"]}

\* The tree listings: entries of type blob or tree; the path of an entry is
\* its position in the listing.
Listings ==
    UNION {[1..n -> {[type |-> "blob"], [type |-> "tree"]}] : n \in 0..MaxFiles}

Listing(l) == [i \in 1..Len(l) |-> [type |-> l[i].type, path |-> i]]

\* The file contents a fetch can return.
Corpus ==
    { <<>>,
      <<"x", "\n", "x">>,
      <<"key", "=", "'", "x", "'">>,
      <<"x", "\n", "key", "=", "'", "x", "'", "\n", "key", "=", "'", "x", "'">>,
      <<"x", "\n", "key", "=", "\n", "'", "x", "'">>,
      <<"PRIVATE", "key", "=", "'", "x", "'">>,
      <<"x", "\n", "BEGIN", " ", "RSA", " ", "PRIVATE", " ", "key", "\n",
        "BEGIN", " ", "RSA", " ", "PRIVATE", " ", "key">>,
      <<"ssh-rsa", " ", "x", "=", " ", "x", "@", "x">>,
      <<"SELECT", " ", "x", " ", "FROM", " ", "x", " ", "WHERE", " ", "x", "=", "'", "x", "'">>,
      <<"<script", "\n", "on", "key", "=", "'", "x", "'">> }

\* No run before this one.
NoFirst ==
    [taken |-> FALSE, projectReply |-> [status |-> 0, body |-> None],
     files |-> <<>>, fetched |-> <<>>, response |-> ErrorResponse(0, None)]

\* What the repository of the run before held for a path: the outcomes of
\* its getFileContent calls.
SnapshotOf(path) == {e \in {first.fetched[k] : k \in 1..Len(first.fetched)} : e.path = path}

\* What the environment answers to this run: anything in a first run, and in
\* a run over the snapshot of the run before what it answered then.
ProjectAnswers == IF first.taken THEN {first.projectReply} ELSE ProjectReplies

ListingAnswers == IF first.taken THEN {first.files} ELSE {Listing(l) : l \in Listings}

ContentAnswers(path) ==
    IF first.taken THEN {e.content : e \in {d \in SnapshotOf(path) : d.ok}} ELSE Corpus

ContentFails(path) == first.taken => \E e \in SnapshotOf(path) : ~e.ok

-----------------------------------------------------------------------------
(* The steps of POST, one per stretch between two awaits.                  *)

Init ==
    /\ pc = "start"
    /\ request \in Requests
    /\ hung = FALSE
    /\ projectReply = [status |-> 0, body |-> None]
    /\ project = None
    /\ files = <<>>
    /\ idx = 0
    /\ vulnerabilities = <<>>
    /\ fetched = <<>>
    /\ consoleErrors = <<>>
    /\ calls = <<>>
    /\ response = ErrorResponse(0, None)
    /\ first = NoFirst

Respond(r) ==
    /\ pc' = "done"
    /\ response' = r

\* request.json() rejects: the catch block answers.
RequestNotJson ==
    /\ pc = "start"
    /\ ~request.json
    /\ Respond(ScanFailed)
    /\ UNCHANGED <<first, request, hung, projectReply, project, files, idx, vulnerabilities,
                   fetched, consoleErrors, calls>>

RequestInvalid ==
    /\ pc = "start"
    /\ request.json
    /\ MissingInput(request)
    /\ Respond(ErrorResponse(400, "Project path and token are required"))
    /\ UNCHANGED <<first, request, hung, projectReply, project, files, idx, vulnerabilities,
                   fetched, consoleErrors, calls>>

\* new GitLabAPI(token) and the call of getProject.
RequestAccepted ==
    /\ pc = "start"
    /\ request.json
    /\ ~MissingInput(request)
    /\ pc' = "awaitProject"
    /\ calls' = Append(calls, [op |-> "getProject", path |-> 0])
    /\ UNCHANGED <<first, request, hung, projectReply, project, files, idx, vulnerabilities,
                   fetched, consoleErrors, response>>

\* GitLabAPI.fetch throws on a response that is not ok, and POST catches it.
ProjectFetchFailed ==
    /\ pc = "awaitProject" /\ ~hung
    /\ \E reply \in ProjectAnswers :
         /\ ~ResponseOk(reply.status)
         /\ projectReply' = reply
    /\ Respond(ScanFailed)
    /\ UNCHANGED <<first, request, hung, project, files, idx, vulnerabilities,
                   fetched, consoleErrors, calls>>

\* if (!project)
ProjectMissing ==
    /\ pc = "awaitProject" /\ ~hung
    /\ \E reply \in ProjectAnswers :
         /\ ResponseOk(reply.status)
         /\ reply.body = "null"
         /\ projectReply' = reply
         /\ project' = reply.body
    /\ Respond(ErrorResponse(404, "Repository not found"))
    /\ UNCHANGED <<first, request, hung, files, idx, vulnerabilities,
                   fetched, consoleErrors, calls>>

ProjectFound ==
    /\ pc = "awaitProject" /\ ~hung
    /\ \E reply \in ProjectAnswers :
         /\ ResponseOk(reply.status)
         /\ reply.body # "null"
         /\ projectReply' = reply
         /\ project' = reply.body
    /\ pc' = "awaitFiles"
    /\ calls' = Append(calls, [op |-> "getRepositoryFiles", path |-> 0])
    /\ UNCHANGED <<first, request, hung, files, idx, vulnerabilities,
                   fetched, consoleErrors, response>>

\* getRepositoryFiles throws: the catch block of POST answers.
FilesFetchFailed ==
    /\ pc = "awaitFiles" /\ ~hung
    /\ ~first.taken
    /\ Respond(ScanFailed)
    /\ UNCHANGED <<first, request, hung, projectReply, project, files, idx, vulnerabilities,
                   fetched, consoleErrors, calls>>

\* The listing arrives and scanFiles starts.
FilesListed ==
    /\ pc = "awaitFiles" /\ ~hung
    /\ vulnerabilities' = NewVulnerabilities
    /\ \E fs \in ListingAnswers :
         /\ files' = fs
         /\ ContinueScan(fs, 1, NewVulnerabilities)
    /\ UNCHANGED <<first, request, hung, projectReply, project,
                   fetched, consoleErrors>>

\* getFileContent resolves: the pattern loops run on the content, and the
\* loop over the files goes on.
FileScanned ==
    /\ pc = "awaitContent" /\ ~hung
    /\ \E content \in ContentAnswers(files[idx].path) :
         LET v == ScanContent(vulnerabilities, 1, files[idx].path, content)
         IN  /\ vulnerabilities' = v
             /\ fetched' = Append(fetched, [path |-> files[idx].path, ok |-> TRUE,
                                            content |-> content, threw |-> 0])
             /\ ContinueScan(files, idx + 1, v)
    /\ UNCHANGED <<first, request, hung, projectReply, project, files, consoleErrors>>

\* CatchFileError without the try block: the error reaches the catch of POST.
RethrowFileError ==
    /\ pc' = "done"
    /\ response' = ScanFailed
    /\ UNCHANGED <<consoleErrors, idx, calls>>

\* The catch block inside the loop of scanFiles: console.error, and the loop
\* goes on with the next file.
CatchFileError ==
    /\ consoleErrors' = Append(consoleErrors, files[idx].path)
    /\ ContinueScan(files, idx + 1, vulnerabilities)

\* getFileContent throws (the response is not ok).
FileFetchFailed ==
    /\ pc = "awaitContent" /\ ~hung
    /\ ContentFails(files[idx].path)
    /\ fetched' = Append(fetched, [path |-> files[idx].path, ok |-> FALSE,
                                   content |-> <<>>, threw |-> 0])
    /\ CatchFileError
    /\ UNCHANGED <<first, request, hung, projectReply, project, files, vulnerabilities>>

\* The fetch of GitLabAPI.fetch is given no signal and no timeout: a server
\* that never answers leaves its promise pending for good.
FetchNeverSettles ==
    /\ pc \in {"awaitProject", "awaitFiles", "awaitContent"}
    /\ ~hung
    /\ ~first.taken
    /\ hung' = TRUE
    /\ UNCHANGED <<first, pc, request, projectReply, project, files, idx, vulnerabilities,
                   fetched, consoleErrors, calls, response>>

Next ==
    \/ RequestNotJson
    \/ RequestInvalid
    \/ RequestAccepted
    \/ ProjectFetchFailed
    \/ ProjectMissing
    \/ ProjectFound
    \/ FilesFetchFailed
    \/ FilesListed
    \/ FileScanned
    \/ FileFetchFailed
    \/ FetchNeverSettles

Spec == Init /\ [][Next]_vars

\* A second request for the same repository, after a run that returned a
\* Report: POST starts again with fresh locals, and the repository answers
\* what it answered to the first run.
ScanAgain ==
    /\ pc = "done"
    /\ ~first.taken
    /\ response.status = 200
    /\ first' = [taken |-> TRUE, projectReply |-> projectReply, files |-> files,
                 fetched |-> fetched, response |-> response]
    /\ pc' = "start"
    /\ projectReply' = [status |-> 0, body |-> None]
    /\ project' = None
    /\ files' = <<>>
    /\ idx' = 0
    /\ fetched' = <<>>
    /\ consoleErrors' = <<>>
    /\ calls' = <<>>
    /\ response' = ErrorResponse(0, None)
    /\ UNCHANGED <<request, hung, vulnerabilities>>

TwoRunSpec == Init /\ [][Next \/ ScanAgain]_vars

RuleFailures == {k \in 1..Len(fetched) : fetched[k].threw # 0}

\* getFileContent resolves and the evaluation of rule t on the content throws
\* (content.match or findLineNumber): the rules before t have pushed their
\* findings, and control leaves the try block for the catch of the file.
RuleEvaluationFailed ==
    /\ pc = "awaitContent" /\ ~hung
    /\ Cardinality(RuleFailures) < MaxRuleFailures
    /\ \E content \in ContentAnswers(files[idx].path) : \E t \in Rules :
         LET v == ScanBefore(vulnerabilities, 1, t, files[idx].path, content)
         IN  /\ vulnerabilities' = v
             /\ fetched' = Append(fetched, [path |-> files[idx].path, ok |-> TRUE,
                                            content |-> content, threw |-> t])
             /\ consoleErrors' = Append(consoleErrors, files[idx].path)
             /\ ContinueScan(files, idx + 1, v)
    /\ UNCHANGED <<first, request, hung, projectReply, project, files>>

FaultSpec == Init /\ [][Next \/ RuleEvaluationFailed]_vars

\* The event loop runs a continuation once its promise settles.
FairSpec == Spec /\ WF_vars(Next)

-----------------------------------------------------------------------------
(* Vocabulary of the properties.                                           *)

Done == pc = "done"

\* POST returned a Report.
Reported == Done /\ response.status = 200

FetchFailures == {k \in 1..Len(fetched) : ~fetched[k].ok}

FetchSuccesses == {k \in 1..Len(fetched) : fetched[k].ok}

BlobPaths(fs) == {fs[i].path : i \in {j \in 1..Len(fs) : fs[j].type = "blob"}}

\* The positions of the findings of one file, and of one rule in one file.
FindingsOfFile(v, path) == {k \in 1..Len(v) : v[k].file = path}

FindingsOfRule(v, path, r) == {k \in FindingsOfFile(v, path) : v[k].rule = r}

\* The positions of content where the pattern of rule r matches.
Occurrences(content, r) == {i \in 1..Len(content) : PatternEnd(r, content, i) # 0}

\* The 1-based line of position i of content.
LineOf(content, i) == 1 + Cardinality({k \in 1..(i - 1) : content[k] = "\n"})

\* The paths getFileContent was called with, in call order.
ContentCalls == SelectSeq(calls, LAMBDA c : c.op = "getFileContent")

\* The blob entries of the listing, in listing order.
Blobs(fs) == SelectSeq(fs, LAMBDA f : f.type = "blob")

-----------------------------------------------------------------------------
(* Properties.                                                             *)

\* C1: in every Report, stats.vulnerabilities is the length of the findings
\* list and the sum of the four severity counters.
C1_StatsCountFindings ==
    Reported =>
        /\ response.stats.vulnerabilities = Len(response.vulnerabilities)
        /\ response.stats.vulnerabilities =
               response.stats.critical + response.stats.high
               + response.stats.medium + response.stats.low

C1_Witness ==
    /\ Reported
    /\ FetchFailures # {}
    /\ \E k, l \in 1..Len(response.vulnerabilities) :
         /\ response.vulnerabilities[k].rule = 1
         /\ response.vulnerabilities[l].rule = 5

\* C2 (as claimed): when the content of a blob cannot be fetched, the Report
\* has no finding for it, counts it in totalFiles, and scannedFiles is the
\* number of blobs whose content was fetched and scanned.
C2_FailedFileNotScanned ==
    (Reported /\ FetchFailures # {}) =>
        /\ \A k \in FetchFailures :
             FindingsOfFile(response.vulnerabilities, fetched[k].path) = {}
        /\ response.stats.totalFiles >= Len(fetched)
        /\ response.stats.scannedFiles = Cardinality(FetchSuccesses)

\* C3 (as claimed): totalFiles is the number of blob entries of the listing,
\* and the content of no other entry is fetched.
C3_TotalCountsBlobs ==
    /\ \A k \in 1..Len(ContentCalls) : ContentCalls[k].path \in BlobPaths(files)
    /\ Reported => response.stats.totalFiles = Cardinality(BlobPaths(files))

\* C4: a fetch failure of one file does not end the run: the blobs are
\* fetched in listing order whatever failed before, and once the run is over
\* the caller has the Report, with the project, the stats and, for every file
\* that was fetched, the findings of its content.
C4_FileFailureIsolated ==
    /\ Len(ContentCalls) <= Len(Blobs(files))
    /\ \A k \in 1..Len(ContentCalls) : ContentCalls[k].path = Blobs(files)[k].path
    /\ (Done /\ FetchFailures # {}) =>
          /\ response.status = 200
          /\ response.project = project
          /\ response.stats.vulnerabilities = Len(vulnerabilities)
          /\ response.vulnerabilities = vulnerabilities
          /\ Len(ContentCalls) = Len(Blobs(files))
          /\ Len(fetched) = Len(Blobs(files))
          /\ \A k \in FetchSuccesses : \A r \in Rules :
                (Occurrences(fetched[k].content, r) # {}) =>
                    FindingsOfRule(response.vulnerabilities, fetched[k].path, r) # {}

C4_Witness ==
    /\ Reported
    /\ \E k \in FetchFailures : \E l \in FetchSuccesses :
         /\ k < l
         /\ FindingsOfFile(response.vulnerabilities, fetched[l].path) # {}

\* C5: for every scanned file and every rule, one finding when the content
\* has an occurrence of the pattern, however many, and none when it has not.
C5_FirstMatchOnly ==
    \A k \in FetchSuccesses : \A r \in Rules :
        Cardinality(FindingsOfRule(vulnerabilities, fetched[k].path, r))
            = IF Occurrences(fetched[k].content, r) = {} THEN 0 ELSE 1

C5_Witness ==
    \E k \in FetchSuccesses :
        /\ Cardinality(Occurrences(fetched[k].content, 5)) >= 2
        /\ Cardinality(FindingsOfRule(vulnerabilities, fetched[k].path, 5)) = 1
        /\ Cardinality(FindingsOfRule(vulnerabilities, fetched[k].path, 1)) = 1
        /\ FindingsOfRule(vulnerabilities, fetched[k].path, 4) = {}

\* C6: the findings are in file order and, within a file, in rule order, and
\* the k-th finding has id k.
C6_FindingsOrdered ==
    /\ \A k \in 1..Len(vulnerabilities) : vulnerabilities[k].id = k
    /\ \A k, l \in 1..Len(vulnerabilities) :
         k < l => \/ vulnerabilities[k].file < vulnerabilities[l].file
                  \/ /\ vulnerabilities[k].file = vulnerabilities[l].file
                     /\ vulnerabilities[k].rule < vulnerabilities[l].rule
    /\ Reported => response.vulnerabilities = vulnerabilities

C6_Witness ==
    /\ Reported
    /\ \E k, l \in 1..Len(response.vulnerabilities) :
         /\ l = k + 1
         /\ response.vulnerabilities[k].file = response.vulnerabilities[l].file
    /\ \E k, l \in 1..Len(response.vulnerabilities) :
         response.vulnerabilities[k].file < response.vulnerabilities[l].file

\* C7: a request without the project path or without the token is answered
\* 400 at once, and no operation of the client is called for it.
C7_InvalidInputNoCall ==
    (request.json /\ (request.projectPath = "" \/ request.token = "")) =>
        /\ calls = <<>>
        /\ pc \in {"start", "done"}
        /\ Done => response.status = 400

C7_Witness ==
    /\ Done
    /\ request.json /\ request.projectPath # "" /\ request.token = ""
    /\ response.status = 400
    /\ calls = <<>>

\* C8 (as claimed): when GitLab answers that the project does not exist, the
\* run ends with "Repository not found" (404), no file listed or fetched.
C8_NotFoundAnswered ==
    (Done /\ projectReply.status = 404) =>
        /\ response.status = 404
        /\ response.message = "Repository not found"
        /\ Len(calls) = 1

\* C9 (as claimed): for a file with one occurrence of a rule's pattern, the
\* line of the finding is the line of the first character of the occurrence.
C9_LineOfOccurrence ==
    \A k \in FetchSuccesses : \A r \in Rules :
        \A i \in Occurrences(fetched[k].content, r) :
            Cardinality(Occurrences(fetched[k].content, r)) = 1 =>
                \A n \in FindingsOfRule(vulnerabilities, fetched[k].path, r) :
                    vulnerabilities[n].line = LineOf(fetched[k].content, i)

\* C10 (as claimed): no run blocks for good: a run that waits for the content
\* of a file is answered in the end, whatever becomes of that fetch.
C10_RunReturns == (pc = "awaitContent") ~> Done

\* The fields of a finding that do not depend on the run.
Semantic(v) ==
    [k \in 1..Len(v) |-> [rule |-> v[k].rule, file |-> v[k].file,
                          line |-> v[k].line, severity |-> v[k].severity]]

\* C11: a second run over the snapshot of the first (the same listing, the
\* same content and fetch outcome for every file) returns findings that agree
\* with those of the first on rule, file, line and severity at every
\* position, and the same stats.
C11_Idempotent ==
    (first.taken /\ Done) =>
        /\ response.status = 200
        /\ Semantic(response.vulnerabilities) = Semantic(first.response.vulnerabilities)
        /\ response.stats = first.response.stats

C11_Witness ==
    /\ first.taken /\ Reported
    /\ FetchFailures # {}
    /\ Len(response.vulnerabilities) >= 2
    /\ \E k \in 1..Len(response.vulnerabilities) : response.vulnerabilities[k].line > 1

\* C12 (as claimed): when the evaluation of one rule on the content of a file
\* throws, the other rules, those ordered after it too, are still evaluated
\* on that file and their findings are reported.
C12_OtherRulesStillRun ==
    \A k \in RuleFailures : \A r \in Rules \ {fetched[k].threw} :
        (Occurrences(fetched[k].content, r) # {}) =>
            FindingsOfRule(vulnerabilities, fetched[k].path, r) # {}

====
